---- MODULE Spec2Model ----
(***************************************************************************)
(* A model of the NameStone SDK client: one client object (its             *)
(* configuration set by the constructor) and the calls made on it.  The    *)
(* sources hold the NameStone class in several forms: the parameter-object *)
(* client of unnamed/part_001 (checkApiKey, getSiweMessage, enableDomain), *)
(* the positional client of src/client.ts (with searchName), and the       *)
(* domain-bound client of unnamed/part_002, of which searchName is         *)
(* modelled.  (The listing at the end of README.md has the methods of      *)
(* part_001 without checkApiKey over the request of client.ts.)  A call is *)
(* an async method: it runs to its first await (the fetch), the network    *)
(* answers, and the continuation maps the answer to the value or the error *)
(* the caller gets.                                                        *)
(***************************************************************************)
EXTENDS Integers, Sequences, FiniteSets, TLC

(* ------------------------------------------------------------------ *)
(* Bounds of the model                                                      *)
(* ------------------------------------------------------------------ *)
\* the caller tasks that may hold a call on the client
MaxCalls == 2
\* the longest list a response carries
MaxList == 2

CallIds == 1..MaxCalls

(* ------------------------------------------------------------------ *)
(* JavaScript values: a type tag and the value's String() form             *)
(* ------------------------------------------------------------------ *)
Undefined == [t |-> "undefined", v |-> "undefined"]
Str(s) == [t |-> "string", v |-> s]
\* a number, held by its decimal digits
Num(s) == [t |-> "number", v |-> s]
\* a boolean, held as "true" or "false"
Bool(s) == [t |-> "boolean", v |-> s]
\* a TextRecords or CoinTypes object
Obj(s) == [t |-> "object", v |-> s]

\* value.toString()
toString(x) == IF x.t = "object" THEN "[object Object]" ELSE x.v

\* the truthiness JavaScript's if (x) and x ? a : b test
Truthy(x) ==
    CASE x.t = "undefined" -> FALSE
      [] x.t = "string" -> x.v # ""
      [] x.t = "number" -> x.v # "0"
      [] x.t = "boolean" -> x.v = "true"
      [] OTHER -> TRUE

\* an optional field: absent (undefined) or one of S
Opt(S) == {Undefined} \cup S

Booleans == {Bool("true"), Bool("false")}

(* ------------------------------------------------------------------ *)
(* State                                                                    *)
(* ------------------------------------------------------------------ *)
VARIABLES
    impl,       \* which NameStone class the client is an instance of
    apiKey,     \* the constructor's apiKey argument
    baseUrl,    \* this.baseUrl (this.baseURL in part_002)
    headers,    \* this.headers: a set of <<name, value>>
    domain,     \* this.domain (part_002 only)
    calls       \* per caller task: its current call on the client

vars == <<impl, apiKey, baseUrl, headers, domain, calls>>

\* the credentials a caller may pass to the constructor
ApiKeys == {Undefined, Str(""), Str("key-1"), Str("key-2")}

NoParams == [none |-> Undefined]
IdleCall ==
    [pc |-> "idle", op |-> "none", params |-> NoParams,
     requests |-> <<>>, response |-> <<>>, outcome |-> <<>>]

\* (mutant of NameStone) the key is stored whenever one is given, the empty
\* string too: if (apiKey !== undefined)
NameStone_definedKey(key) ==
    /\ impl = "part_001"
    /\ apiKey = key
    /\ baseUrl = "https://namestone.xyz/api/public_v1"
    /\ headers = {<<"Content-Type", "application/json">>}
                 \cup (IF key # Undefined THEN {<<"Authorization", key.v>>} ELSE {})
    /\ domain = ""

\* constructor(apiKey?: string) of part_001
NameStone(key) ==
    /\ impl = "part_001"
    /\ apiKey = key
    /\ baseUrl = "https://namestone.xyz/api/public_v1"
    /\ headers = {<<"Content-Type", "application/json">>}
                 \cup (IF Truthy(key) THEN {<<"Authorization", key.v>>} ELSE {})
    /\ domain = ""

\* constructor(apiKey: string) of client.ts: new Headers({...}) turns each
\* value into a string
client_NameStone(key) ==
    /\ impl = "client_ts"
    /\ apiKey = key
    /\ baseUrl = "https://namestone.xyz/api/public_v1"
    /\ headers = {<<"Content-Type", "application/json">>,
                  <<"Authorization", toString(key)>>}
    /\ domain = ""

\* constructor(domain: string, apiKey: string) of part_002
legacy_NameStone(dom, key) ==
    /\ impl = "part_002"
    /\ apiKey = key
    /\ baseUrl = "https://namestone.xyz/api/public_v1/"
    /\ headers = {<<"Content-Type", "application/json">>,
                  <<"Authorization", toString(key)>>}
    /\ domain = dom

Init ==
    /\ calls = [c \in CallIds |-> IdleCall]
    /\ \E key \in ApiKeys :
          \/ NameStone(key)
          \/ client_NameStone(key)
          \/ legacy_NameStone("testbrand.eth", key)

(* ------------------------------------------------------------------ *)
(* Requests, responses and outcomes                                         *)
(* ------------------------------------------------------------------ *)
\* an endpoint: the path and the query string's pairs, in order
Endpoint(path, query) == [path |-> path, query |-> query]

\* a request without a body (body: undefined)
NoBody == [present |-> FALSE, members |-> {}]

\* the JSON null
Null == [t |-> "null", v |-> "null"]

\* (mutant of JSONstringify) a member for every key, null for undefined
JSONstringify_nullForUndefined(data) ==
    [present |-> TRUE,
     members |-> {<<k, IF data[k] = Undefined THEN Null ELSE data[k]>> : k \in DOMAIN data}]

\* JSON.stringify(data) of an object: a member per key whose value is not
\* undefined
JSONstringify(data) ==
    [present |-> TRUE,
     members |-> {<<k, data[k]>> : k \in {j \in DOMAIN data : data[j] # Undefined}}]

\* what fetch(url, config) is called with
FetchCall(base, endpoint, method, hdrs, body) ==
    [base |-> base, path |-> endpoint.path, query |-> endpoint.query,
     method |-> method, headers |-> hdrs, body |-> body]

\* NameData records of a response
Names == {"alice", "bob"}
NameData(n) == [name |-> n]

RECURSIVE ListsUpTo(_)
ListsUpTo(n) ==
    IF n = 0 THEN {<<>>}
    ELSE LET shorter == ListsUpTo(n - 1)
         IN shorter \cup {Append(l, NameData(x)) : l \in {s \in shorter : Len(s) = n - 1}, x \in Names}

\* a response body: a JSON array of NameData, a JSON object, or text that is
\* not JSON
ArrayBody(l) == [kind |-> "array", items |-> l, text |-> ""]
ObjectBody(s) == [kind |-> "object", items |-> <<>>, text |-> s]
TextBody(s) == [kind |-> "text", items |-> <<>>, text |-> s]
Bodies ==
    {ArrayBody(l) : l \in ListsUpTo(MaxList)}
    \cup {ObjectBody("{api_key}"), TextBody("some text")}

Statuses == {200, 204, 401, 403, 404, 500}

\* what the awaited fetch settles with: a Response, or a rejection when the
\* transport fails
Responses ==
    {[kind |-> "response", status |-> s, body |-> b] : s \in Statuses, b \in Bodies}
    \cup {[kind |-> "failure", status |-> 0, body |-> TextBody("")]}

\* res.ok
ok(res) == res.status >= 200 /\ res.status <= 299

\* the message of an Error: its fixed text, and the status and the body
\* interpolated into it (each a list of none or one)
Message(text, status, body) == [text |-> text, status |-> status, body |-> body]

NoValue == [t |-> "undefined", body |-> <<>>, item |-> <<>>]
JsonValue(b) == [t |-> "json", body |-> <<b>>, item |-> <<>>]
TextValue(b) == [t |-> "text", body |-> <<b>>, item |-> <<>>]
ItemValue(x) == [t |-> "item", body |-> <<>>, item |-> <<x>>]

\* how a call's promise settles
Resolved(value) ==
    [kind |-> "resolved", error |-> "", message |-> Message("", <<>>, <<>>), value |-> value]
Rejected(error, message) ==
    [kind |-> "rejected", error |-> error, message |-> message, value |-> NoValue]

\* errors.ts
AuthenticationError(message) == Rejected("AuthenticationError", message)
NetworkError(message) == Rejected("NetworkError", message)
MissingDataError(message) == Rejected("MissingDataError", message)

\* res.json(): the parsed body, or a SyntaxError when the body is not JSON
json(res) ==
    IF res.body.kind = "text"
    THEN Rejected("SyntaxError", Message("Unexpected token", <<>>, <<>>))
    ELSE Resolved(JsonValue(res.body))

\* res.text()
text(res) == Resolved(TextValue(res.body))

(* ------------------------------------------------------------------ *)
(* Calls                                                                    *)
(* ------------------------------------------------------------------ *)
\* a caller task may start a call when it holds none
Callable(c) == calls[c].pc = "idle"

\* the method reached its await fetch(url, config): the request is out and the
\* call is suspended
Await(c, op, params, req) ==
    calls' = [calls EXCEPT ![c] =
                 [pc |-> "awaiting", op |-> op, params |-> params,
                  requests |-> <<req>>, response |-> <<>>, outcome |-> <<>>]]

\* the method threw before any await: its promise is rejected and no request
\* was made
Throw(c, op, params, err) ==
    calls' = [calls EXCEPT ![c] =
                 [pc |-> "done", op |-> op, params |-> params,
                  requests |-> <<>>, response |-> <<>>, outcome |-> <<err>>]]

\* the rejection of fetch itself (no response received)
FetchFailed == Rejected("TypeError", Message("fetch failed", <<>>, <<>>))

(* ------------------------------------------------------------------ *)
(* The client of unnamed/part_001                                           *)
(* ------------------------------------------------------------------ *)
NoData == NoParams

\* (mutant of request_fetch) the request leaves without the Authorization
\* header
request_fetch_noAuthorization(endpoint, method, data) ==
    FetchCall(baseUrl, endpoint, method, {h \in headers : h[1] # "Authorization"},
              IF data = NoData THEN NoBody ELSE JSONstringify(data))

\* request(endpoint, method, data), to its await fetch(url, config)
request_fetch(endpoint, method, data) ==
    FetchCall(baseUrl, endpoint, method, headers,
              IF data = NoData THEN NoBody ELSE JSONstringify(data))

\* (mutant of request_settle) no branch for the status 401
request_settle_401AsNetwork(res) ==
    IF res.kind = "failure" THEN FetchFailed
    ELSE IF ~ok(res)
    THEN NetworkError(Message("HTTP error! status: , message: ", <<res.status>>, <<res.body>>))
    ELSE json(res)

\* request, from the settling of fetch to its return or throw
request_settle(res) ==
    IF res.kind = "failure" THEN FetchFailed
    ELSE IF ~ok(res)
    THEN IF res.status = 401
         THEN AuthenticationError(Message("Authentication failed: ", <<>>, <<res.body>>))
         ELSE NetworkError(Message("HTTP error! status: , message: ", <<res.status>>, <<res.body>>))
    ELSE json(res)

\* requestText(endpoint), to its await fetch(url, config)
requestText_fetch(endpoint) ==
    FetchCall(baseUrl, endpoint, "GET", {<<"Accept", "text/plain">>}, NoBody)

\* requestText, from the settling of fetch to its return or throw
requestText_settle(res) ==
    IF res.kind = "failure" THEN FetchFailed
    ELSE IF ~ok(res)
    THEN NetworkError(Message("HTTP error! status: , message: ", <<res.status>>, <<res.body>>))
    ELSE text(res)

\* checkApiKey() returns (TRUE) or throws (FALSE)
checkApiKey == \E h \in headers : h[1] = "Authorization" /\ h[2] # ""

ApiKeyRequired ==
    AuthenticationError(Message("API key is required for this endpoint", <<>>, <<>>))

\* for (const [key, value] of Object.entries(params))
\*   if (value !== undefined) queryParams.append(key, value.toString())
appendDefined(params, keys) ==
    LET ks == SelectSeq(keys, LAMBDA k : params[k] # Undefined)
    IN [i \in 1..Len(ks) |-> <<ks[i], toString(params[ks[i]])>>]

\* the parameter objects callers pass (the interfaces of part_001), and the
\* order of their keys
SetNameParams ==
    [name : {Str("alice")}, domain : {Str("testbrand.eth")}, address : {Str("0xabc")},
     contenthash : Opt({Str("ipfs")}), text_records : Opt({Obj("text_records")}),
     coin_types : Opt({Obj("coin_types")})]
ClaimNameParams ==
    [name : {Str("alice")}, domain : {Str("testbrand.eth")}, address : {Str("0xabc")},
     contenthash : Opt({Str("ipfs")}), text_records : Opt({Obj("text_records")}),
     coin_types : Opt({Obj("coin_types")}), single_claim : Opt({Num("0"), Num("1")})]
GetNamesParams ==
    [domain : Opt({Str(""), Str("testbrand.eth")}), address : Opt({Str(""), Str("0xabc")}),
     text_records : Opt(Booleans), limit : Opt({Num("0"), Num("2")}),
     offset : Opt({Num("0")})]
GetNamesKeys == <<"domain", "address", "text_records", "limit", "offset">>
SearchNamesParams ==
    [domain : {Str("testbrand.eth")}, name : {Str("alice"), Str("bob")},
     text_records : Opt(Booleans), limit : Opt({Num("1")}),
     exact_match : Opt(Booleans), offset : Opt({Num("0")})]
SearchNamesKeys == <<"domain", "name", "text_records", "limit", "exact_match", "offset">>
DeleteNameParams == [name : {Str("alice")}, domain : {Str("testbrand.eth")}]
SetDomainParams ==
    [domain : {Str("testbrand.eth")}, address : {Str("0xabc")},
     contenthash : Opt({Str("ipfs")}), text_records : Opt({Obj("text_records")})]
GetDomainParams == [domain : {Str(""), Str("testbrand.eth")}]
GetDomainKeys == <<"domain">>
GetSiweMessageParams ==
    [address : {Str("0xabc")}, domain : Opt({Str(""), Str("testbrand.eth")}),
     uri : Opt({Str("https://example.org")})]
GetSiweMessageKeys == <<"address", "domain", "uri">>
EnableDomainParams ==
    [company_name : {Str("acme")}, email : {Str("a@example.org")}, address : {Str("0xabc")},
     domain : {Str("testbrand.eth")}, signature : {Str("0xsig")},
     api_key : Opt({Str("key-1")}), cycle_key : Opt({Str("0"), Str("1")})]

\* an operation that starts with this.checkApiKey() and then awaits
\* this.request(endpoint, method, data)
Authenticated(c, op, params, endpoint, method, data) ==
    IF ~checkApiKey
    THEN Throw(c, op, params, ApiKeyRequired)
    ELSE Await(c, op, params, request_fetch(endpoint, method, data))

setName(c, params) ==
    /\ impl = "part_001" /\ Callable(c)
    /\ Authenticated(c, "setName", params, Endpoint("/set-name", <<>>), "POST", params)
    /\ UNCHANGED <<impl, apiKey, baseUrl, headers, domain>>

\* const single_claim = params.single_claim || 0
claimName_single_claim(params) ==
    IF Truthy(params.single_claim) THEN params.single_claim ELSE Num("0")

claimName(c, params) ==
    /\ impl = "part_001" /\ Callable(c)
    /\ Authenticated(c, "claimName", params,
           Endpoint("/claim-name",
                    <<<<"single_claim", toString(claimName_single_claim(params))>>>>),
           "POST", params)
    /\ UNCHANGED <<impl, apiKey, baseUrl, headers, domain>>

getNames(c, params) ==
    /\ impl = "part_001" /\ Callable(c)
    /\ Authenticated(c, "getNames", params,
           Endpoint("/get-names", appendDefined(params, GetNamesKeys)), "GET", NoData)
    /\ UNCHANGED <<impl, apiKey, baseUrl, headers, domain>>

searchNames(c, params) ==
    /\ impl = "part_001" /\ Callable(c)
    /\ Authenticated(c, "searchNames", params,
           Endpoint("/search-names", appendDefined(params, SearchNamesKeys)), "GET", NoData)
    /\ UNCHANGED <<impl, apiKey, baseUrl, headers, domain>>

deleteName(c, params) ==
    /\ impl = "part_001" /\ Callable(c)
    /\ Authenticated(c, "deleteName", params, Endpoint("/delete-name", <<>>), "POST", params)
    /\ UNCHANGED <<impl, apiKey, baseUrl, headers, domain>>

setDomain(c, params) ==
    /\ impl = "part_001" /\ Callable(c)
    /\ Authenticated(c, "setDomain", params, Endpoint("/set-domain", <<>>), "POST", params)
    /\ UNCHANGED <<impl, apiKey, baseUrl, headers, domain>>

getDomain(c, params) ==
    /\ impl = "part_001" /\ Callable(c)
    /\ Authenticated(c, "getDomain", params,
           Endpoint("/get-domain", appendDefined(params, GetDomainKeys)), "GET", NoData)
    /\ UNCHANGED <<impl, apiKey, baseUrl, headers, domain>>

\* (mutant of getSiweMessage) the text request's headers are written into
\* this.headers instead of a config of their own
getSiweMessage_sharedHeaders(c, params) ==
    /\ impl = "part_001" /\ Callable(c)
    /\ headers' = {<<"Accept", "text/plain">>}
    /\ Await(c, "getSiweMessage", params,
             requestText_fetch(Endpoint("/get-siwe-message",
                                        appendDefined(params, GetSiweMessageKeys))))
    /\ UNCHANGED <<impl, apiKey, baseUrl, domain>>

getSiweMessage(c, params) ==
    /\ impl = "part_001" /\ Callable(c)
    /\ Await(c, "getSiweMessage", params,
             requestText_fetch(Endpoint("/get-siwe-message",
                                        appendDefined(params, GetSiweMessageKeys))))
    /\ UNCHANGED <<impl, apiKey, baseUrl, headers, domain>>

\* (mutant of enableDomain) enableDomain starts with this.checkApiKey() as
\* the other operations do
enableDomain_checked(c, params) ==
    /\ impl = "part_001" /\ Callable(c)
    /\ Authenticated(c, "enableDomain", params, Endpoint("/enable-domain", <<>>), "POST", params)
    /\ UNCHANGED <<impl, apiKey, baseUrl, headers, domain>>

enableDomain(c, params) ==
    /\ impl = "part_001" /\ Callable(c)
    /\ Await(c, "enableDomain", params,
             request_fetch(Endpoint("/enable-domain", <<>>), "POST", params))
    /\ UNCHANGED <<impl, apiKey, baseUrl, headers, domain>>

\* (mutant of part_001_settle) searchNames narrows as searchName does: an
\* empty list is a MissingDataError
part_001_settle_emptyIsMissing(op, res) ==
    IF op = "getSiweMessage" THEN requestText_settle(res)
    ELSE IF op = "searchNames" /\ request_settle(res) = Resolved(JsonValue(ArrayBody(<<>>)))
    THEN MissingDataError(Message("No user found matching name: ", <<>>, <<>>))
    ELSE request_settle(res)

\* what a call of part_001 settles with once its fetch has settled with res
part_001_settle(op, res) ==
    IF op = "getSiweMessage" THEN requestText_settle(res) ELSE request_settle(res)

(* ------------------------------------------------------------------ *)
(* The client of src/client.ts (positional arguments, by parameter name)    *)
(* ------------------------------------------------------------------ *)
\* request(endpoint, method, data), to its await fetch(url, config)
client_request_fetch(endpoint, method, data) ==
    FetchCall(baseUrl, endpoint, method, headers,
              IF data = NoData THEN NoBody ELSE JSONstringify(data))

\* (mutant of client_request_settle) the NetworkError's message without the
\* status
client_request_settle_noStatus(res) ==
    IF res.kind = "failure" THEN FetchFailed
    ELSE IF ~ok(res)
    THEN IF res.status = 401
         THEN AuthenticationError(Message("Authentication failed", <<>>, <<>>))
         ELSE NetworkError(Message("HTTP error!", <<>>, <<>>))
    ELSE json(res)

\* request, from the settling of fetch to its return or throw
client_request_settle(res) ==
    IF res.kind = "failure" THEN FetchFailed
    ELSE IF ~ok(res)
    THEN IF res.status = 401
         THEN AuthenticationError(Message("Authentication failed", <<>>, <<>>))
         ELSE NetworkError(Message("HTTP error! status: ", <<res.status>>, <<>>))
    ELSE json(res)

\* if (value !== undefined) params.append(key, value ? "1" : "0")
appendFlag(key, value) ==
    IF value # Undefined THEN <<<<key, IF Truthy(value) THEN "1" ELSE "0">>>> ELSE <<>>

\* if (value !== undefined) params.append(key, value.toString())
appendNumber(key, value) ==
    IF value # Undefined THEN <<<<key, toString(value)>>>> ELSE <<>>

\* if (value) params.append(key, value)
appendIfTruthy(key, value) ==
    IF Truthy(value) THEN <<<<key, toString(value)>>>> ELSE <<>>

client_ClaimNameArgs ==
    [name : {Str("alice")}, domain : {Str("testbrand.eth")}, address : {Str("0xabc")},
     contenthash : Opt({Str("ipfs")}), text_records : Opt({Obj("text_records")}),
     single_claim : Opt(Booleans)]
client_SearchNameArgs ==
    [domain : {Str("testbrand.eth")}, name : {Str("alice"), Str("bob")},
     text_records : Opt(Booleans)]
client_GetDomainArgs == [domain : Opt({Str(""), Str("testbrand.eth")})]

client_setName(c, args) ==
    /\ impl = "client_ts" /\ Callable(c)
    /\ Await(c, "setName", args,
             client_request_fetch(Endpoint("/set-name", <<>>), "POST", args))
    /\ UNCHANGED <<impl, apiKey, baseUrl, headers, domain>>

\* (mutant of client_claimName_data) the arguments are sent as they are, as
\* a parameter object would be
client_claimName_data_all(args) == args

\* const data = { name, domain, address, contenthash, text_records }
client_claimName_data(args) ==
    [k \in {"name", "domain", "address", "contenthash", "text_records"} |-> args[k]]

client_claimName(c, args) ==
    /\ impl = "client_ts" /\ Callable(c)
    /\ Await(c, "claimName", args,
             client_request_fetch(
                 Endpoint("/claim-name",
                          IF Truthy(args.single_claim)
                          THEN <<<<"single_claim", "1">>>> ELSE <<>>),
                 "POST", client_claimName_data(args)))
    /\ UNCHANGED <<impl, apiKey, baseUrl, headers, domain>>

client_getNames_query(args) ==
    appendIfTruthy("domain", args.domain) \o appendIfTruthy("address", args.address)
    \o appendFlag("text_records", args.text_records)
    \o appendNumber("limit", args.limit) \o appendNumber("offset", args.offset)

client_getNames(c, args) ==
    /\ impl = "client_ts" /\ Callable(c)
    /\ Await(c, "getNames", args,
             client_request_fetch(Endpoint("/get-names", client_getNames_query(args)),
                                  "GET", NoData))
    /\ UNCHANGED <<impl, apiKey, baseUrl, headers, domain>>

client_searchNames_query(args) ==
    <<<<"domain", toString(args.domain)>>, <<"name", toString(args.name)>>>>
    \o appendFlag("text_records", args.text_records)
    \o appendNumber("limit", args.limit)
    \o appendFlag("exact_match", args.exact_match)
    \o appendNumber("offset", args.offset)

client_searchNames(c, args) ==
    /\ impl = "client_ts" /\ Callable(c)
    /\ Await(c, "searchNames", args,
             client_request_fetch(Endpoint("/search-names", client_searchNames_query(args)),
                                  "GET", NoData))
    /\ UNCHANGED <<impl, apiKey, baseUrl, headers, domain>>

client_searchName_query(args) ==
    <<<<"domain", toString(args.domain)>>, <<"name", toString(args.name)>>,
      <<"limit", "1">>, <<"exact_match", "1">>>>
    \o appendFlag("text_records", args.text_records)

client_searchName(c, args) ==
    /\ impl = "client_ts" /\ Callable(c)
    /\ Await(c, "searchName", args,
             client_request_fetch(Endpoint("/search-names", client_searchName_query(args)),
                                  "GET", NoData))
    /\ UNCHANGED <<impl, apiKey, baseUrl, headers, domain>>

client_deleteName(c, args) ==
    /\ impl = "client_ts" /\ Callable(c)
    /\ Await(c, "deleteName", args,
             client_request_fetch(Endpoint("/delete-name", <<>>), "POST", args))
    /\ UNCHANGED <<impl, apiKey, baseUrl, headers, domain>>

client_setDomain(c, args) ==
    /\ impl = "client_ts" /\ Callable(c)
    /\ Await(c, "setDomain", args,
             client_request_fetch(Endpoint("/set-domain", <<>>), "POST", args))
    /\ UNCHANGED <<impl, apiKey, baseUrl, headers, domain>>

client_getDomain(c, args) ==
    /\ impl = "client_ts" /\ Callable(c)
    /\ Await(c, "getDomain", args,
             client_request_fetch(
                 Endpoint("/get-domain", appendIfTruthy("domain", args.domain)),
                 "GET", NoData))
    /\ UNCHANGED <<impl, apiKey, baseUrl, headers, domain>>

\* await this.request(...) in a method that returns nothing
client_void_return(r) == IF r.kind = "rejected" THEN r ELSE Resolved(NoValue)

\* (mutant of client_searchName_return) the first element is returned only
\* when it is not the last
client_searchName_return_single(r) ==
    IF r.kind = "rejected" THEN r
    ELSE LET data == r.value.body[1]
         IN IF data.kind = "array" /\ Len(data.items) # 1
            THEN MissingDataError(Message("No user found matching name: ", <<>>, <<>>))
            ELSE IF data.kind = "array"
            THEN Resolved(ItemValue(data.items[1]))
            ELSE Resolved(NoValue)

\* searchName, after its await this.request(...): data.length and data[0]
client_searchName_return(r) ==
    IF r.kind = "rejected" THEN r
    ELSE LET data == r.value.body[1]
         IN IF data.kind = "array" /\ Len(data.items) = 0
            THEN MissingDataError(Message("No user found matching name: ", <<>>, <<>>))
            ELSE IF data.kind = "array"
            THEN Resolved(ItemValue(data.items[1]))
            ELSE Resolved(NoValue)

\* what a call of client.ts settles with once its fetch has settled with res
client_settle(op, res) ==
    CASE op \in {"setName", "claimName", "deleteName", "setDomain"}
             -> client_void_return(client_request_settle(res))
      [] op = "searchName" -> client_searchName_return(client_request_settle(res))
      [] OTHER -> client_request_settle(res)

(* ------------------------------------------------------------------ *)
(* searchName of the client of unnamed/part_002                             *)
(* ------------------------------------------------------------------ *)
legacy_SearchNameArgs == [name : {Str("alice"), Str("bob")}]

\* #get(path, queryParams), to its await fetch(url, {...})
legacy_get_fetch(path, queryParams) ==
    FetchCall(baseUrl, Endpoint(path, <<<<"domain", domain>>>> \o queryParams),
              "GET", headers, NoBody)

\* #get, from the settling of fetch to its return or throw
legacy_get_settle(res) ==
    IF res.kind = "failure" THEN FetchFailed
    ELSE IF ~ok(res)
    THEN IF res.status = 401
         THEN AuthenticationError(Message("Authentication failed", <<>>, <<>>))
         ELSE NetworkError(Message("HTTP error! status: ", <<res.status>>, <<>>))
    ELSE json(res)

legacy_searchName(c, args) ==
    /\ impl = "part_002" /\ Callable(c)
    /\ Await(c, "searchName", args,
             legacy_get_fetch("search-names",
                              <<<<"name", toString(args.name)>>, <<"limit", "1">>>>))
    /\ UNCHANGED <<impl, apiKey, baseUrl, headers, domain>>

\* searchName, after its await this.#get(...):
\* data.length === 0 || data[0].name !== name
legacy_searchName_return(args, r) ==
    IF r.kind = "rejected" THEN r
    ELSE LET data == r.value.body[1]
         IN IF data.kind # "array"
            THEN Rejected("TypeError", Message("Cannot read properties of undefined", <<>>, <<>>))
            ELSE IF Len(data.items) = 0 \/ data.items[1].name # args.name.v
            THEN MissingDataError(Message("No user found matching name: ", <<>>, <<>>))
            ELSE Resolved(ItemValue(data.items[1]))

legacy_settle(op, args, res) == legacy_searchName_return(args, legacy_get_settle(res))

(* ------------------------------------------------------------------ *)
(* The settling of a call, and the specification                            *)
(* ------------------------------------------------------------------ *)
\* what the caller of op gets once the awaited fetch has settled with res
Completion(op, params, res) ==
    CASE impl = "part_001" -> part_001_settle(op, res)
      [] impl = "client_ts" -> client_settle(op, res)
      [] OTHER -> legacy_settle(op, params, res)

\* (mutant of Settle) a fetch that fails or is answered by a failure is made
\* again
Settle_retry(c, res) ==
    /\ calls[c].pc = "awaiting"
    /\ IF res.kind = "failure" \/ ~ok(res)
       THEN calls' = [calls EXCEPT ![c].requests = Append(@, @[1])]
       ELSE calls' = [calls EXCEPT ![c].pc = "done",
                                   ![c].response = <<res>>,
                                   ![c].outcome =
                                       <<Completion(calls[c].op, calls[c].params, res)>>]
    /\ UNCHANGED <<impl, apiKey, baseUrl, headers, domain>>

\* (mutant of Settle) one slot holds the last response for all the calls in
\* flight: each of them runs to its end with res
Settle_sharedResponse(c, res) ==
    /\ calls[c].pc = "awaiting"
    /\ calls' = [d \in CallIds |->
                    IF calls[d].pc = "awaiting"
                    THEN [calls[d] EXCEPT !.pc = "done",
                                          !.response = <<res>>,
                                          !.outcome =
                                              <<Completion(calls[d].op, calls[d].params, res)>>]
                    ELSE calls[d]]
    /\ UNCHANGED <<impl, apiKey, baseUrl, headers, domain>>

\* the awaited fetch settles with res and the suspended method runs to its end
Settle(c, res) ==
    /\ calls[c].pc = "awaiting"
    /\ calls' = [calls EXCEPT ![c].pc = "done",
                              ![c].response = <<res>>,
                              ![c].outcome =
                                  <<Completion(calls[c].op, calls[c].params, res)>>]
    /\ UNCHANGED <<impl, apiKey, baseUrl, headers, domain>>

\* the caller task takes the settled promise's value or error and is free for
\* its next call
Return(c) ==
    /\ calls[c].pc = "done"
    /\ calls' = [calls EXCEPT ![c] = IdleCall]
    /\ UNCHANGED <<impl, apiKey, baseUrl, headers, domain>>

\* the arguments callers pass, per method
Inputs ==
    [setName |-> SetNameParams, claimName |-> ClaimNameParams,
     getNames |-> GetNamesParams, searchNames |-> SearchNamesParams,
     deleteName |-> DeleteNameParams, setDomain |-> SetDomainParams,
     getDomain |-> GetDomainParams, getSiweMessage |-> GetSiweMessageParams,
     enableDomain |-> EnableDomainParams,
     client_claimName |-> client_ClaimNameArgs,
     client_searchName |-> client_SearchNameArgs,
     client_getDomain |-> client_GetDomainArgs,
     legacy_searchName |-> legacy_SearchNameArgs]

\* the steps of caller task c: a call of a method with arguments of in, the
\* settling of its fetch with a response of rs, the return to the caller
Step(c, in, rs) ==
    \/ \E p \in in.setName : setName(c, p)
    \/ \E p \in in.claimName : claimName(c, p)
    \/ \E p \in in.getNames : getNames(c, p)
    \/ \E p \in in.searchNames : searchNames(c, p)
    \/ \E p \in in.deleteName : deleteName(c, p)
    \/ \E p \in in.setDomain : setDomain(c, p)
    \/ \E p \in in.getDomain : getDomain(c, p)
    \/ \E p \in in.getSiweMessage : getSiweMessage(c, p)
    \/ \E p \in in.enableDomain : enableDomain(c, p)
    \/ \E a \in in.setName : client_setName(c, a)
    \/ \E a \in in.client_claimName : client_claimName(c, a)
    \/ \E a \in in.getNames : client_getNames(c, a)
    \/ \E a \in in.searchNames : client_searchNames(c, a)
    \/ \E a \in in.client_searchName : client_searchName(c, a)
    \/ \E a \in in.deleteName : client_deleteName(c, a)
    \/ \E a \in in.setDomain : client_setDomain(c, a)
    \/ \E a \in in.client_getDomain : client_getDomain(c, a)
    \/ \E a \in in.legacy_searchName : legacy_searchName(c, a)
    \/ \E res \in rs : Settle(c, res)
    \/ Return(c)

\* one caller task, its calls one after the other
Next == Step(1, Inputs, Responses)

Spec == Init /\ [][Next]_vars

\* callers that run side by side: each of the caller tasks may have a call
\* in flight while another starts, is answered or returns.  The arguments are
\* those with the fewest fields given, the answers a sample of each kind.
LeastDefined(S) ==
    {p \in S : \A q \in S :
        Cardinality({k \in DOMAIN p : p[k] # Undefined})
            <= Cardinality({k \in DOMAIN q : q[k] # Undefined})}

FewInputs == [m \in DOMAIN Inputs |-> LeastDefined(Inputs[m])]

FewResponses ==
    {r \in Responses :
        \/ r.kind = "failure"
        \/ r.status = 200 /\ r.body.kind = "array" /\ Len(r.body.items) <= 1
        \/ r.status \in {401, 500} /\ r.body.kind = "text"}

NextConcurrent == \E c \in CallIds : Step(c, FewInputs, FewResponses)

SpecConcurrent == Init /\ [][NextConcurrent]_vars

(* ------------------------------------------------------------------ *)
(* What the claims speak of                                                 *)
(* ------------------------------------------------------------------ *)
Started(c) == calls[c].pc # "idle"
Sent(c) == Len(calls[c].requests) > 0
Done(c) == calls[c].pc = "done"
\* the call got an HTTP response (fetch did not fail)
Answered(c) == Done(c) /\ Len(calls[c].response) = 1 /\ calls[c].response[1].kind = "response"
Req(c) == calls[c].requests[1]
Res(c) == calls[c].response[1]
Out(c) == calls[c].outcome[1]

QueryKeys(q) == {q[i][1] : i \in 1..Len(q)}
DefinedKeys(p) == {k \in DOMAIN p : p[k] # Undefined}

\* the client was constructed with a credential
HasCredential == Truthy(apiKey)

(* ---------------------------- C1 ---------------------------------- *)
C1_Operations ==
    {"setName", "claimName", "getNames", "searchNames", "searchName",
     "deleteName", "setDomain", "getDomain"}

\* C1 (as claimed; violated by searchName of client.ts): on a client
\* constructed without a credential (no apiKey, or the empty string), a call
\* of a credential-requiring operation (the seven of part_001, and searchName
\* of client.ts) has sent no request and is rejected with AuthenticationError.
C1_NoCredentialFailsBeforeFetch ==
    \A c \in CallIds :
        ( /\ ~HasCredential
          /\ Started(c)
          /\ calls[c].op \in C1_Operations
          /\ (impl = "part_001" \/ (impl = "client_ts" /\ calls[c].op = "searchName")) )
        => ( /\ ~Sent(c)
             /\ Done(c)
             /\ Out(c).kind = "rejected"
             /\ Out(c).error = "AuthenticationError" )

(* ---------------------------- C2 ---------------------------------- *)
\* C2 (as claimed; violated by getSiweMessage): a 401 response makes every
\* operation fail with AuthenticationError.
C2_Every401IsAuthenticationError ==
    \A c \in CallIds :
        (Answered(c) /\ Res(c).status = 401)
        => (Out(c).kind = "rejected" /\ Out(c).error = "AuthenticationError")

\* C2 (amended): a 401 response makes every operation but getSiweMessage fail
\* with AuthenticationError; getSiweMessage fails with NetworkError carrying
\* the status 401.
C2_401IsAuthenticationErrorButSiwe ==
    \A c \in CallIds :
        (Answered(c) /\ Res(c).status = 401)
        => /\ Out(c).kind = "rejected"
           /\ IF calls[c].op = "getSiweMessage"
              THEN Out(c).error = "NetworkError" /\ Out(c).message.status = <<401>>
              ELSE Out(c).error = "AuthenticationError"

C2_Witness ==
    \E c \in CallIds :
        /\ Answered(c) /\ Res(c).status = 401
        /\ calls[c].op = "enableDomain"
        /\ Out(c).error = "AuthenticationError"

(* ---------------------------- C3 ---------------------------------- *)
\* C3: a response that is neither 2xx nor 401 makes every operation fail with
\* NetworkError, whose message carries the status of that response.
C3_OtherStatusIsNetworkErrorWithStatus ==
    \A c \in CallIds :
        (Answered(c) /\ ~ok(Res(c)) /\ Res(c).status # 401)
        => /\ Out(c).kind = "rejected"
           /\ Out(c).error = "NetworkError"
           /\ Out(c).message.status = <<Res(c).status>>

C3_Witness ==
    \E c \in CallIds :
        /\ Answered(c) /\ Res(c).status = 500
        /\ Out(c).error = "NetworkError"
        /\ Out(c).message.status = <<500>>

(* ---------------------------- C4 ---------------------------------- *)
C4_GetOperations == {"getNames", "searchNames", "getDomain", "getSiweMessage"}

\* C4 (as claimed; violated by getNames and getDomain of client.ts): the keys
\* of a GET operation's query string are exactly the parameters whose value is
\* defined, and a defined string or number appears with its string form.
C4_QueryKeysAreTheDefinedParameters ==
    \A c \in CallIds :
        (Sent(c) /\ calls[c].op \in C4_GetOperations /\ impl \in {"part_001", "client_ts"})
        => /\ QueryKeys(Req(c).query) = DefinedKeys(calls[c].params)
           /\ \A k \in DefinedKeys(calls[c].params) :
                  calls[c].params[k].t \in {"string", "number"}
                  => \E i \in 1..Len(Req(c).query) :
                         Req(c).query[i] = <<k, calls[c].params[k].v>>

(* ---------------------------- C5 ---------------------------------- *)
C5_Flags == {"text_records", "exact_match"}

\* C5 (as claimed; violated by getNames and searchNames of part_001): in the
\* query string of a GET request a defined boolean parameter is "1" when true
\* and "0" when false.
C5_BooleansAreOneOrZero ==
    \A c \in CallIds :
        (Sent(c) /\ Req(c).method = "GET")
        => \A k \in C5_Flags \cap DefinedKeys(calls[c].params) :
               /\ k \in QueryKeys(Req(c).query)
               /\ \A i \in 1..Len(Req(c).query) :
                      Req(c).query[i][1] = k
                      => Req(c).query[i][2] =
                             (IF calls[c].params[k] = Bool("true") THEN "1" ELSE "0")

(* ---------------------------- C6 ---------------------------------- *)
\* searchName got a 2xx response whose body is a JSON list
C6_ListAnswer(c) ==
    /\ Answered(c) /\ calls[c].op = "searchName"
    /\ ok(Res(c)) /\ Res(c).body.kind = "array"

\* C6 (as claimed; violated by searchName of part_002): on a 2xx response
\* searchName fails with MissingDataError when the list is empty, and
\* otherwise returns the list's first element, whatever that element is.
C6_FirstElementUnconditionally ==
    \A c \in CallIds :
        C6_ListAnswer(c)
        => IF Len(Res(c).body.items) = 0
           THEN Out(c).kind = "rejected" /\ Out(c).error = "MissingDataError"
           ELSE Out(c) = Resolved(ItemValue(Res(c).body.items[1]))

\* C6 (amended): on a 2xx response searchName fails with MissingDataError
\* when the list is empty; otherwise searchName of client.ts returns the
\* list's first element whatever it is, and searchName of part_002 returns
\* the first element when its name equals the name searched for and fails
\* with MissingDataError when it does not.
C6_FirstElementOrNameMismatch ==
    \A c \in CallIds :
        C6_ListAnswer(c)
        => IF Len(Res(c).body.items) = 0
                \/ ( impl = "part_002"
                     /\ Res(c).body.items[1].name # calls[c].params.name.v )
           THEN Out(c).kind = "rejected" /\ Out(c).error = "MissingDataError"
           ELSE Out(c) = Resolved(ItemValue(Res(c).body.items[1]))

\* searchName of client.ts returned the first of two elements, one whose name
\* is not the name searched for
C6_Witness ==
    \E c \in CallIds :
        /\ C6_ListAnswer(c) /\ impl = "client_ts"
        /\ Len(Res(c).body.items) = 2
        /\ Res(c).body.items[1].name # calls[c].params.name.v
        /\ Out(c) = Resolved(ItemValue(Res(c).body.items[1]))

(* ---------------------------- C7 ---------------------------------- *)
\* C7: on a 2xx response carrying the empty list, searchNames resolves to the
\* empty list whatever exact_match is, and no operation but searchName fails
\* with MissingDataError.
C7_SearchNamesEmptyListResolves ==
    \A c \in CallIds :
        /\ ( /\ Answered(c) /\ calls[c].op = "searchNames"
             /\ ok(Res(c)) /\ Res(c).body = ArrayBody(<<>>) )
           => Out(c) = Resolved(JsonValue(ArrayBody(<<>>)))
        /\ (Done(c) /\ calls[c].op # "searchName")
           => Out(c).error # "MissingDataError"

C7_Witness ==
    \E c \in CallIds :
        /\ Answered(c) /\ calls[c].op = "searchNames"
        /\ calls[c].params.exact_match = Bool("true")
        /\ ok(Res(c)) /\ Res(c).body = ArrayBody(<<>>)
        /\ Out(c) = Resolved(JsonValue(ArrayBody(<<>>)))

(* ---------------------------- C8 ---------------------------------- *)
\* the operations of part_001 that start with this.checkApiKey()
C8_Checked(c) ==
    impl = "part_001" /\ calls[c].op \notin {"getSiweMessage", "enableDomain"}

\* the call failed: a transport failure, a non-2xx response, or a rejection
C8_Failed(c) ==
    /\ Done(c)
    /\ \/ ~Sent(c)
       \/ Res(c).kind = "failure"
       \/ ~ok(Res(c))
       \/ Out(c).kind = "rejected"

\* C8: an invocation makes at most one request, exactly one when the
\* credential check passes (or there is none), and none when it fails; a
\* fetch that failed or was answered by a failure leaves the invocation
\* settled, rejected, with that one request only.
C8_OneRequestNoRetry ==
    \A c \in CallIds :
        /\ Len(calls[c].requests) <= 1
        /\ Started(c)
           => (Sent(c) <=> (C8_Checked(c) => checkApiKey))
        /\ (Started(c) /\ ~Sent(c))
           => (Done(c) /\ Out(c).error = "AuthenticationError")
        /\ (Sent(c) /\ Len(calls[c].response) = 1)
           => /\ Done(c)
              /\ Len(calls[c].outcome) = 1
              /\ (Res(c).kind = "failure" \/ ~ok(Res(c))) => Out(c).kind = "rejected"

\* a call whose only request was answered 500 has settled, rejected
C8_Witness ==
    \E c \in CallIds :
        /\ C8_Failed(c) /\ Sent(c)
        /\ Res(c).kind = "response" /\ Res(c).status = 500
        /\ Len(calls[c].requests) = 1
        /\ Out(c).kind = "rejected"

(* ---------------------------- C9 ---------------------------------- *)
\* the values of the request's Authorization headers
C9_Authorization(req) == {h[2] : h \in {g \in req.headers : g[1] = "Authorization"}}

\* C9 (as claimed; violated by getSiweMessage): every request of a client
\* constructed with a credential carries an Authorization header whose value
\* is that credential.
C9_EveryRequestCarriesTheCredential ==
    \A c \in CallIds :
        (HasCredential /\ Sent(c)) => C9_Authorization(Req(c)) = {apiKey.v}

\* C9 (amended): every request of a client constructed with a credential
\* carries an Authorization header whose value is that credential, but the
\* request of getSiweMessage, which carries the header Accept: text/plain
\* alone.
C9_EveryRequestButSiweCarriesTheCredential ==
    \A c \in CallIds :
        (HasCredential /\ Sent(c))
        => IF calls[c].op = "getSiweMessage"
           THEN Req(c).headers = {<<"Accept", "text/plain">>}
           ELSE C9_Authorization(Req(c)) = {apiKey.v}

C9_Witness ==
    \E c \in CallIds :
        /\ HasCredential /\ Sent(c)
        /\ calls[c].op = "enableDomain"
        /\ apiKey = Str("key-2")
        /\ <<"Authorization", "key-2">> \in Req(c).headers

(* ---------------------------- C10 --------------------------------- *)
C10_PostOperations == {"setName", "claimName", "deleteName", "setDomain", "enableDomain"}

\* the object a POST operation hands to request as data: the parameter
\* object, and for claimName of client.ts the object built of its arguments
\* but single_claim
C10_Fields(c) ==
    IF impl = "client_ts" /\ calls[c].op = "claimName"
    THEN DOMAIN calls[c].params \ {"single_claim"}
    ELSE DOMAIN calls[c].params

C11_401MessageCarriesTheBody ==
    \A c \in CallIds :
        (Answered(c) /\ Res(c).status = 401 /\ Out(c).error = "AuthenticationError")
        => Out(c).message.body = <<Res(c).body>>

(* ---------------------------- C12 --------------------------------- *)
\* the awaited fetch of the call was rejected: no response was received
C12_FetchRejected(c) ==
    Done(c) /\ Len(calls[c].response) = 1 /\ Res(c).kind = "failure"

\* C12 (as claimed; violated by every operation: the rejection of fetch is
\* caught nowhere and reaches the caller as it is, a TypeError): a transport
\* failure of the request makes the operation fail with NetworkError.
C12_TransportFailureIsNetworkError ==
    \A c \in CallIds :
        C12_FetchRejected(c)
        => (Out(c).kind = "rejected" /\ Out(c).error = "NetworkError")

(* ---------------------------- C13 --------------------------------- *)
\* a call of getSiweMessage or enableDomain on a client of part_001 that was
\* constructed without a credential
C13_Open(c) ==
    /\ impl = "part_001" /\ ~HasCredential
    /\ Started(c)
    /\ calls[c].op \in {"getSiweMessage", "enableDomain"}

\* C13: on a client constructed without a credential, getSiweMessage and
\* enableDomain send their request and are never rejected by the credential
\* check; on a 2xx response getSiweMessage resolves to the body's text, and
\* enableDomain resolves to the parsed body (the issued credential) of a
\* response whose body is JSON.
C13_UncheckedOperationsWork ==
    \A c \in CallIds :
        C13_Open(c)
        => /\ Sent(c)
           /\ Done(c) => Out(c) # ApiKeyRequired
           /\ (Answered(c) /\ ok(Res(c)))
              => IF calls[c].op = "getSiweMessage"
                 THEN Out(c) = Resolved(TextValue(Res(c).body))
                 ELSE Res(c).body.kind # "text"
                      => Out(c) = Resolved(JsonValue(Res(c).body))

\* enableDomain, called on a client made with no apiKey, resolved to the
\* object of a 200 response
C13_Witness ==
    \E c \in CallIds :
        /\ C13_Open(c) /\ apiKey = Undefined
        /\ calls[c].op = "enableDomain"
        /\ Answered(c) /\ Res(c).status = 200
        /\ Out(c) = Resolved(JsonValue(ObjectBody("{api_key}")))

(* ---------------------------- C14 --------------------------------- *)
C14_MutatingOperations == {"setName", "claimName", "deleteName", "setDomain"}

\* C14 (as claimed; violated by the mutating operations of part_001, which
\* return what request returns, the parsed body, and by those of client.ts
\* when the body is not JSON): on a 2xx response a mutating operation
\* resolves to undefined, whatever the body of the response is.
C14_MutatingResolveToNoValue ==
    \A c \in CallIds :
        (Answered(c) /\ ok(Res(c)) /\ calls[c].op \in C14_MutatingOperations)
        => Out(c) = Resolved(NoValue)

(* ---------------------------- C15 --------------------------------- *)
\* the configuration is what the constructor of the client's class makes of
\* the apiKey (and domain) it was given
C15_AsConstructed ==
    \/ NameStone(apiKey)
    \/ client_NameStone(apiKey)
    \/ legacy_NameStone(domain, apiKey)

\* C15: the base URL and the headers are those the constructor set, in every
\* state, and no step of any call, successful or failed, changes them.
C15_ConfigurationNeverChanges ==
    /\ []C15_AsConstructed
    /\ [][baseUrl' = baseUrl /\ headers' = headers]_vars

\* a call has failed on a 401 response: the headers still hold the credential
\* its request carried
C15_Witness ==
    /\ apiKey = Str("key-1") /\ impl = "part_001"
    /\ <<"Authorization", "key-1">> \in headers
    /\ \E c \in CallIds :
           /\ Answered(c) /\ Res(c).status = 401
           /\ Out(c).error = "AuthenticationError"
           /\ <<"Authorization", "key-1">> \in Req(c).headers

(* ---------------------------- C16 --------------------------------- *)
\* two caller tasks hold a call of the same operation with the same arguments
C16_SameCall(c, d) ==
    /\ Started(c) /\ Started(d)
    /\ calls[c].op = calls[d].op
    /\ calls[c].params = calls[d].params

\* what a call sent and what it returned are determined by its operation, its
\* arguments, the configuration and its own response
C16_Determined ==
    \A c \in CallIds :
        /\ (Done(c) /\ Sent(c))
           => Out(c) = Completion(calls[c].op, calls[c].params, Res(c))
        /\ \A d \in CallIds :
               C16_SameCall(c, d)
               => /\ calls[c].requests = calls[d].requests
                  /\ (Done(c) /\ Done(d) /\ calls[c].response = calls[d].response)
                     => calls[c].outcome = calls[d].outcome

\* a step is a step of one call: it leaves every other call as it was, and it
\* leaves the request of a call in flight as it was sent
C16_OneCallPerStep ==
    \A c \in CallIds :
        /\ calls'[c] # calls[c]
           => \A d \in CallIds \ {c} : calls'[d] = calls[d]
        /\ (calls[c].pc = "awaiting" /\ calls'[c].pc # "idle")
           => /\ calls'[c].requests = calls[c].requests
              /\ calls'[c].op = calls[c].op
              /\ calls'[c].params = calls[c].params

C17_Values(q, key) == {q[i][2] : i \in {j \in 1..Len(q) : q[j][1] = key}}

\* C17 (as claimed; violated by searchName of part_002, whose query has no
\* exact_match): the request of searchName has exact_match=1 and limit=1 and
\* no other value for either, whatever the arguments are.
C17_SearchNameSendsExactMatchAndLimitOne ==
    \A c \in CallIds :
        (Sent(c) /\ calls[c].op = "searchName")
        => /\ C17_Values(Req(c).query, "exact_match") = {"1"}
           /\ C17_Values(Req(c).query, "limit") = {"1"}

(* ---------------------------- C18 --------------------------------- *)
\* the keys of the request's JSON body
C18_BodyKeys(c) == {m[1] : m \in Req(c).body.members}

\* C18 (as claimed; violated by claimName of part_001, whose body is the
\* whole parameter object): the body of claimName holds no key but name,
\* domain, address, contenthash and text_records, and never single_claim.
C18_SingleClaimInQueryOnly ==
    \A c \in CallIds :
        (Sent(c) /\ calls[c].op = "claimName")
        => /\ Req(c).method = "POST" /\ Req(c).path = "/claim-name"
           /\ C18_BodyKeys(c) \subseteq
                  {"name", "domain", "address", "contenthash", "text_records"}

\* C18 (amended): claimName sends POST /claim-name.  In client.ts the query
\* is single_claim=1 when single_claim is truthy and empty otherwise, and the
\* body holds the defined ones of name, domain, address, contenthash and
\* text_records, never single_claim.  In part_001 the query always has
\* single_claim (0 when it is not given or falsy), and the body holds every
\* defined field of the parameter object: single_claim too when it was given,
\* and coin_types.
C18_SingleClaimInQueryAndParameterObject ==
    \A c \in CallIds :
        (Sent(c) /\ calls[c].op = "claimName")
        => LET p == calls[c].params
           IN /\ Req(c).method = "POST" /\ Req(c).path = "/claim-name"
              /\ IF impl = "client_ts"
                 THEN /\ Req(c).query = IF Truthy(p.single_claim)
                                        THEN <<<<"single_claim", "1">>>> ELSE <<>>
                      /\ C18_BodyKeys(c) = DefinedKeys(p) \ {"single_claim"}
                      /\ C18_BodyKeys(c) \subseteq
                             {"name", "domain", "address", "contenthash", "text_records"}
                 ELSE /\ Req(c).query =
                             <<<<"single_claim",
                                 IF Truthy(p.single_claim) THEN p.single_claim.v ELSE "0">>>>
                      /\ C18_BodyKeys(c) = DefinedKeys(p)

\* claimName of part_001 with single_claim: 1 sent it in the query and in the
\* body
C18_Witness ==
    \E c \in CallIds :
        /\ Sent(c) /\ calls[c].op = "claimName" /\ impl = "part_001"
        /\ calls[c].params.single_claim = Num("1")
        /\ Req(c).query = <<<<"single_claim", "1">>>>
        /\ <<"single_claim", Num("1")>> \in Req(c).body.members

====
